---- MODULE Spec2Model ----
(***************************************************************************)
(* A model of src/src/lambda/wknc_stats_lambda.py: one invocation of       *)
(* lambda_handler, which loads the rolling 30-day spin dataset from S3,    *)
(* purges old spins, fetches new spins from the WKNC API page by page,     *)
(* merges them, writes the dataset back and republishes the statistics     *)
(* page.                                                                   *)
(*                                                                         *)
(* Time is an integer number of seconds.  A dict (Python dicts keep        *)
(* insertion order) is a sequence of records with pairwise distinct keys.  *)
(* A text is a sequence of one-character strings.                          *)
(***************************************************************************)
EXTENDS Integers, Sequences, FiniteSets, TLC

VARIABLES
    pc,                 \* the statement of lambda_handler about to run
    now,                \* datetime.now(timezone.utc) as read by SpinHistory.load
    blob,               \* the S3 object DATA_BUCKET/DATA_KEY
    spins,              \* SpinHistory.spins, a dict id_ -> Spin in insertion order
    spins_removed,      \* the count purge_old_spins logs
    requests,           \* the calls of make_spin_request so far, in order
    pages,              \* what each of those calls returned, in order
    fetched,            \* fetch_spins' local list `spins`
    spins_in_response,  \* fetch_spins' local of that name
    response,           \* make_spin_request's local: the last answer of the API
    data,               \* the mapping update_s3_website hands to the template
    website,            \* the S3 object WEBSITE_BUCKET/WEBSITE_KEY
    s3_puts,            \* the keys s3.put_object succeeded on, in order
    log,                \* the steps of the handler that have completed, in order
    exc,                \* the exception that left lambda_handler, or "none"
    failed_at,          \* the step that exception was raised in, or "none"
    status              \* the statusCode lambda_handler returned, 0 before that

vars == <<pc, now, blob, spins, spins_removed, requests, pages, fetched,
          spins_in_response, response, data, website, s3_puts, log, exc, failed_at,
          status>>

(***************************************************************************)
(* Program constants.                                                      *)
(***************************************************************************)
\* DAYS: Final = timedelta(days=30), in seconds
DAYS == 2592000
\* while spins_in_response == 100
PAGE_CAP == 100
\* sorted_scores[:5]
TRENDING_K == 5
\* most_common(10)
TOP_K == 10

(***************************************************************************)
(* Bounds of the model.                                                    *)
(***************************************************************************)
\* the earliest instant an invocation may read as `now`
BaseNow == 4000000
\* the number of spins in the stored dataset
MaxStored == 2
\* the number of elements of an API page drawn freely from ElemPool
MaxPageElems == 2
\* the number of API requests one fetch may take
MaxPages == 3
\* the size of the long page that is below the API's cap
PartialSize == 37
\* the number of spins of a dataset the statistics are computed on
MaxSpins == 6

(***************************************************************************)
(* Texts.                                                                  *)
(***************************************************************************)
NameA == <<"A">>
NameB == <<"B">>
NameC == <<"C">>
SongX == <<"x">>
SongY == <<"y">>
ScriptTag == <<"<", "s", "c", "r", "i", "p", "t", ">">>
LongText == [i \in 1..(PAGE_CAP + 1) |-> "z"]

\* text t holds the raw tag <script>
HasRawScript(t) ==
    \E i \in 1..Len(t) :
        /\ i + Len(ScriptTag) - 1 <= Len(t)
        /\ SubSeq(t, i, i + Len(ScriptTag) - 1) = ScriptTag

(***************************************************************************)
(* Sequence helpers.                                                       *)
(***************************************************************************)
Range(s) == {s[i] : i \in 1..Len(s)}

SeqsUpTo(S, n) == UNION {[1..k -> S] : k \in 0..n}

RECURSIVE Concat(_)
Concat(ss) == IF ss = <<>> THEN <<>> ELSE Head(ss) \o Concat(Tail(ss))

CountOf(s, x) == Cardinality({i \in 1..Len(s) : s[i] = x})

IsPrefix(s, t) == Len(s) <= Len(t) /\ SubSeq(t, 1, Len(s)) = s

(***************************************************************************)
(* Spin and the JSON the API answers with.                                 *)
(*                                                                         *)
(* A JSON value that is a field of a response element is a record [t, v]:  *)
(* t says what the element holds there ("missing": no such key; "str": a   *)
(* string; "ts": a string of the form %Y-%m-%dT%H:%M:%SZ, v being the      *)
(* instant it names; "badstr": any other string; "num": a number).         *)
(***************************************************************************)
Spin(id_, artist, song, start, end) ==
    [id_ |-> id_, artist |-> artist, song |-> song, start |-> start, end |-> end]

NoSpin == Spin(0, <<>>, <<>>, 0, 0)

\* Spin.parse_utc_string: strptime raises TypeError on a non-string and
\* ValueError on a string that does not match the format
parse_utc_string(raw) ==
    CASE raw.t = "ts" -> [ok |-> TRUE, exc |-> "none", val |-> raw.v]
      [] raw.t = "num" -> [ok |-> FALSE, exc |-> "TypeError", val |-> 0]
      [] OTHER -> [ok |-> FALSE, exc |-> "ValueError", val |-> 0]

\* Spin.from_dict: the fields are read in the order id, artist, song, start,
\* end; indexing a str with "id" is a TypeError, a missing key a KeyError;
\* artist and song are taken as they are
from_dict(item) ==
    IF item.k # "object" THEN [ok |-> FALSE, exc |-> "TypeError", spin |-> NoSpin]
    ELSE IF \/ item.id.t = "missing"
            \/ item.artist.t = "missing"
            \/ item.song.t = "missing"
            \/ item.start.t = "missing"
         THEN [ok |-> FALSE, exc |-> "KeyError", spin |-> NoSpin]
    ELSE IF ~parse_utc_string(item.start).ok
         THEN [ok |-> FALSE, exc |-> parse_utc_string(item.start).exc, spin |-> NoSpin]
    ELSE IF item.end.t = "missing"
         THEN [ok |-> FALSE, exc |-> "KeyError", spin |-> NoSpin]
    ELSE IF ~parse_utc_string(item.end).ok
         THEN [ok |-> FALSE, exc |-> parse_utc_string(item.end).exc, spin |-> NoSpin]
    ELSE [ok |-> TRUE, exc |-> "none",
          spin |-> Spin(item.id.v, item.artist.v, item.song.v,
                        parse_utc_string(item.start).val,
                        parse_utc_string(item.end).val)]

\* [Spin.from_dict(spin) for spin in ...]: the first element that raises ends it
from_dict_all(items) ==
    LET bad == {i \in 1..Len(items) : ~from_dict(items[i]).ok}
    IN  IF bad = {}
        THEN [ok |-> TRUE, exc |-> "none",
              spins |-> [i \in 1..Len(items) |-> from_dict(items[i]).spin]]
        ELSE [ok |-> FALSE, spins |-> <<>>,
              exc |-> from_dict(items[CHOOSE i \in bad : \A j \in bad : i <= j]).exc]

(***************************************************************************)
(* A response is [kind, items]: kind is what the body's top-level JSON     *)
(* value is ("list", "object", "string", "number", "null"), or "invalid"   *)
(* for a body that is not JSON, or "http_error" when the retries on        *)
(* 429/500/502/503/504 are used up.  items is what iterating the loaded    *)
(* value yields: a list's elements, an object's keys, a string's           *)
(* characters.                                                             *)
(***************************************************************************)
\* WkncApiClient.make_spin_request, from the response on
make_spin_request(answer) ==
    CASE answer.kind = "http_error" ->
            [ok |-> FALSE, exc |-> "RetryError", spins |-> <<>>]
      [] answer.kind = "invalid" ->
            [ok |-> FALSE, exc |-> "JSONDecodeError", spins |-> <<>>]
      [] answer.kind \in {"number", "null"} ->
            [ok |-> FALSE, exc |-> "TypeError", spins |-> <<>>]
      [] OTHER -> from_dict_all(answer.items)

\* WkncApiClient.convert_utc_to_et: the instant to the minute, as the string
\* %Y-%m-%d %H:%M in US/Eastern; the string is modelled by the minute it names
convert_utc_to_et(utc_dt) == utc_dt \div 60

\* the params of the GET request
params(start, end) ==
    [station |-> 1, start |-> convert_utc_to_et(start), end |-> convert_utc_to_et(end)]

(***************************************************************************)
(* SpinHistory.                                                            *)
(***************************************************************************)
Ids(d) == {d[i].id_ : i \in 1..Len(d)}

\* the value a dict holds under key id (the dict has the key)
Get(d, id) == d[CHOOSE i \in 1..Len(d) : d[i].id_ = id]

\* a well-formed dict: no key twice
IsDict(d) == \A i, j \in 1..Len(d) : d[i].id_ = d[j].id_ => i = j

\* SpinHistory.most_recent_spin, on a non-empty dict: max() keeps the first of
\* the spins with the greatest start
most_recent_spin(d) ==
    LET starts == {d[i].start : i \in 1..Len(d)}
        greatest == CHOOSE m \in starts : \A x \in starts : x <= m
        at == {i \in 1..Len(d) : d[i].start = greatest}
    IN  d[CHOOSE i \in at : \A j \in at : i <= j]

\* the mutant: spins at the boundary are kept
purge_keeps_boundary(d, boundary) ==
    SelectSeq(d, LAMBDA spin : spin.start >= boundary)

\* SpinHistory.purge_old_spins: the dict comprehension
purge_old_spins(d, boundary) ==
    SelectSeq(d, LAMBDA spin : spin.start > boundary)

\* {**a, **b}: a's keys keep their place and take b's value where b has the
\* key; b's other keys follow in b's order
dict_merge(a, b) ==
    LET in_a == Ids(a)
        in_b == Ids(b)
    IN  [i \in 1..Len(a) |-> IF a[i].id_ \in in_b THEN Get(b, a[i].id_) ELSE a[i]]
            \o SelectSeq(b, LAMBDA spin : spin.id_ \notin in_a)

\* {spin.id_: spin for spin in new_spins}: the spins are stored one after the
\* other, so a key keeps the place of its first spin and the value of its
\* last; storing new_spins[lo..hi] is storing the first half and then the rest
dict_of(new_spins) ==
    LET RECURSIVE store(_, _)
        store(lo, hi) ==
            IF lo > hi THEN <<>>
            ELSE IF lo = hi THEN <<new_spins[lo]>>
            ELSE LET mid == (lo + hi) \div 2
                     left == store(lo, mid)
                     right == store(mid + 1, hi)
                 IN  IF Len(left) > 0 /\ Len(right) > 0
                     THEN dict_merge(left, right)
                     ELSE left \o right
    IN  store(1, Len(new_spins))

\* SpinHistory.fetch_spins_from_api, from the fetched list on
fetch_spins_from_api(d, new_spins) == dict_merge(d, dict_of(new_spins))

(***************************************************************************)
(* The statistics.  A ranking is a sequence of records [key, n].           *)
(***************************************************************************)
\* the keys of a sequence in the order they are first met, as a Python dict
\* built from it holds them
first_keys(ks) ==
    LET first(key) == CHOOSE i \in 1..Len(ks) :
                          ks[i] = key /\ \A j \in 1..(i - 1) : ks[j] # key
        firsts == {first(key) : key \in Range(ks)}
        places == SelectSeq([i \in 1..Len(ks) |-> i], LAMBDA i : i \in firsts)
    IN  [k \in 1..Len(places) |-> ks[places[k]]]

\* sorted(pairs, key=lambda x: x[1], reverse=True): stable, so pairs of equal n
\* keep the order they came in
sorted_reverse(pairs) ==
    LET RECURSIVE insert(_, _)
        insert(x, s) ==
            IF s = <<>> THEN <<x>>
            ELSE IF Head(s).n >= x.n THEN <<Head(s)>> \o insert(x, Tail(s))
            ELSE <<x>> \o s
        RECURSIVE sort(_, _)
        sort(i, acc) == IF i > Len(pairs) THEN acc ELSE sort(i + 1, insert(pairs[i], acc))
    IN  sort(1, <<>>)

\* s[:k]
take(s, k) == SubSeq(s, 1, IF Len(s) < k THEN Len(s) ELSE k)

\* the mutant: a spin at the midpoint counts as after it
trending_counts_midpoint_as_after(d) ==
    LET middle == most_recent_spin(d).start - DAYS \div 2
        keys == first_keys([i \in 1..Len(d) |-> d[i].artist])
        zero == [k \in 1..Len(keys) |-> [key |-> keys[k], n |-> 0]]
        at(artist) == CHOOSE k \in 1..Len(keys) : keys[k] = artist
        bump(sc, spin) ==
            IF spin.start >= middle
            THEN [sc EXCEPT ![at(spin.artist)].n = @ + 1]
            ELSE [sc EXCEPT ![at(spin.artist)].n = @ - 1]
        \* for spin in self.spins.values(), from d[lo] to d[hi]; the scores
        \* after d[lo..mid] are computed before the rest of the loop runs
        RECURSIVE loop(_, _, _)
        loop(lo, hi, sc) ==
            IF lo > hi THEN sc
            ELSE IF lo = hi THEN bump(sc, d[lo])
            ELSE LET mid == (lo + hi) \div 2
                     half == loop(lo, mid, sc)
                 IN  IF Len(half) = Len(sc) THEN loop(mid + 1, hi, half) ELSE half
    IN  take(sorted_reverse(loop(1, Len(d), zero)), TRENDING_K)

\* SpinHistory.find_trending_artists, on a non-empty dict
find_trending_artists(d) ==
    LET middle == most_recent_spin(d).start - DAYS \div 2
        keys == first_keys([i \in 1..Len(d) |-> d[i].artist])
        zero == [k \in 1..Len(keys) |-> [key |-> keys[k], n |-> 0]]
        at(artist) == CHOOSE k \in 1..Len(keys) : keys[k] = artist
        bump(sc, spin) ==
            IF spin.start > middle
            THEN [sc EXCEPT ![at(spin.artist)].n = @ + 1]
            ELSE [sc EXCEPT ![at(spin.artist)].n = @ - 1]
        \* for spin in self.spins.values(), from d[lo] to d[hi]; the scores
        \* after d[lo..mid] are computed before the rest of the loop runs
        RECURSIVE loop(_, _, _)
        loop(lo, hi, sc) ==
            IF lo > hi THEN sc
            ELSE IF lo = hi THEN bump(sc, d[lo])
            ELSE LET mid == (lo + hi) \div 2
                     half == loop(lo, mid, sc)
                 IN  IF Len(half) = Len(sc) THEN loop(mid + 1, hi, half) ELSE half
    IN  take(sorted_reverse(loop(1, Len(d), zero)), TRENDING_K)

\* Counter(ks).most_common(k): the counts in the order the keys are first met,
\* the k greatest first, equal counts in that order
most_common(ks, k) ==
    LET keys == first_keys(ks)
    IN  take(sorted_reverse([i \in 1..Len(keys) |->
                                [key |-> keys[i], n |-> CountOf(ks, keys[i])]]), k)

\* SpinHistory.find_top_artists
find_top_artists(d) == most_common([i \in 1..Len(d) |-> d[i].artist], TOP_K)

\* SpinHistory.find_top_songs: the keys are (song, artist)
find_top_songs(d) == most_common([i \in 1..Len(d) |-> <<d[i].song, d[i].artist>>], TOP_K)

NoData == [trending_artists |-> <<>>, top_artists |-> <<>>, top_songs |-> <<>>]

(***************************************************************************)
(* The inputs: what the data object holds when the invocation starts and   *)
(* what the API answers.                                                   *)
(***************************************************************************)
Str(v) == [t |-> "str", v |-> v]
Ts(v) == [t |-> "ts", v |-> v]
NoText == [t |-> "missing", v |-> <<>>]
NoTime == [t |-> "missing", v |-> 0]
BadTime == [t |-> "badstr", v |-> 0]
NumTime == [t |-> "num", v |-> 0]

Obj(id, artist, song, start, end) ==
    [k |-> "object", id |-> Str(id), artist |-> artist, song |-> song,
     start |-> start, end |-> end]

\* a str met where a response element is expected: a key of a JSON object, a
\* character of a JSON string, a string in a list
StrItem ==
    [k |-> "string", id |-> [t |-> "missing", v |-> 0], artist |-> NoText,
     song |-> NoText, start |-> NoTime, end |-> NoTime]

\* the spins the stored dataset is made of; their texts are clean
StoredPool ==
    { Spin(1, NameA, SongX, BaseNow - 120, BaseNow - 60),
      Spin(2, NameB, SongX, BaseNow - DAYS, BaseNow - DAYS + 60),
      Spin(3, NameA, SongY, BaseNow - DAYS + 1, BaseNow - DAYS + 61) }

StoredDatasets == {d \in SeqsUpTo(StoredPool, MaxStored) : IsDict(d)}

Blobs ==
    {[kind |-> k, spins |-> <<>>] : k \in {"absent", "invalid_json", "bad_shape"}}
        \cup {[kind |-> "ok", spins |-> d] : d \in StoredDatasets}

\* the elements short pages are made of
ElemPool ==
    { Obj(1, Str(NameB), Str(SongY), Ts(BaseNow - 120), Ts(BaseNow - 60)),
      Obj(2, Str(NameC), Str(SongX), Ts(BaseNow - 500), Ts(BaseNow - 440)),
      Obj(5, Str(ScriptTag), Str(LongText), Ts(BaseNow - 300), Ts(BaseNow - 240)),
      Obj(7, NoText, Str(SongX), Ts(BaseNow - 200), Ts(BaseNow - 140)),
      Obj(8, Str(NameA), Str(SongX), BadTime, Ts(BaseNow - 140)),
      Obj(9, Str(NameA), Str(SongX), Ts(BaseNow - 200), NumTime) }

\* a long page of well-formed elements, the n-th answer of a fetch, for the
\* window that ends at `end`
LongPage(size, n, end) ==
    [kind |-> "list",
     items |-> [i \in 1..size |->
                  Obj(1000 * n + i, Str(IF i % 2 = 0 THEN NameA ELSE NameB), Str(SongX),
                      Ts(end - i), Ts(end - i + 1))]]

\* what the API may answer to the n-th request of a fetch; it answers with at
\* most PAGE_CAP elements, and with a full page only while the fetch has
\* requests left within MaxPages
Responses(n, end) ==
    {[kind |-> "list", items |-> p] : p \in SeqsUpTo(ElemPool, MaxPageElems)}
        \cup {LongPage(PartialSize, n, end)}
        \cup (IF n < MaxPages THEN {LongPage(PAGE_CAP, n, end)} ELSE {})
        \cup {[kind |-> "object", items |-> <<>>],
              [kind |-> "object", items |-> <<StrItem>>],
              [kind |-> "string", items |-> <<>>],
              [kind |-> "string", items |-> <<StrItem, StrItem>>],
              [kind |-> "number", items |-> <<>>],
              [kind |-> "null", items |-> <<>>],
              [kind |-> "invalid", items |-> <<>>],
              [kind |-> "http_error", items |-> <<>>]}

NoResponse == [kind |-> "none", items |-> <<>>]

(***************************************************************************)
(* lambda_handler, statement by statement (SpinHistory.load inlined).      *)
(***************************************************************************)
\* the mutant: the page is published before the dataset is written
StepsPublishFirst ==
    <<"load_from_s3", "purge_old_spins", "fetch_spins", "merge",
      "compute_stats", "publish", "write_to_s3", "return">>

\* the order of the statements of lambda_handler and SpinHistory.load
Steps ==
    <<"load_from_s3", "purge_old_spins", "fetch_spins", "merge",
      "write_to_s3", "compute_stats", "publish", "return">>

After(step) == Steps[(CHOOSE i \in 1..Len(Steps) : Steps[i] = step) + 1]

Init ==
    /\ pc = Steps[1]
    /\ now \in {BaseNow, BaseNow + 1}
    /\ blob \in Blobs
    /\ spins = <<>>
    /\ spins_removed = 0
    /\ requests = <<>>
    /\ pages = <<>>
    /\ fetched = <<>>
    /\ spins_in_response = 0
    /\ response = NoResponse
    /\ data = NoData
    /\ website = NoData
    /\ s3_puts = <<>>
    /\ log = <<>>
    /\ exc = "none"
    /\ failed_at = "none"
    /\ status = 0

\* an exception leaves lambda_handler
Fail(e) ==
    /\ pc' = "failed"
    /\ exc' = e
    /\ failed_at' = pc

\* the statement completes
Pass ==
    /\ pc' = After(pc)
    /\ log' = Append(log, pc)
    /\ UNCHANGED <<exc, failed_at>>

\* SpinHistory.load_from_s3: get_object raises ClientError when the key is
\* absent; loads raises JSONDecodeError, a ValueError, on bytes that are not
\* JSON; fromdict raises a JSONWizardError on JSON of another shape; only
\* ClientError and JSONWizardError are caught
load_from_s3(b) ==
    CASE b.kind = "absent" -> [ok |-> TRUE, exc |-> "none", spins |-> <<>>]
      [] b.kind = "bad_shape" -> [ok |-> TRUE, exc |-> "none", spins |-> <<>>]
      [] b.kind = "invalid_json" -> [ok |-> FALSE, exc |-> "JSONDecodeError", spins |-> <<>>]
      [] OTHER -> [ok |-> TRUE, exc |-> "none", spins |-> b.spins]

LoadFromS3 ==
    /\ pc = "load_from_s3"
    /\ LET r == load_from_s3(blob)
       IN  IF r.ok
           THEN spins' = r.spins /\ Pass
           ELSE Fail(r.exc) /\ UNCHANGED <<spins, log>>
    /\ UNCHANGED <<now, blob, spins_removed, requests, pages, fetched,
                   spins_in_response, response, data, website, s3_puts, status>>

PurgeOldSpins ==
    /\ pc = "purge_old_spins"
    /\ spins' = purge_old_spins(spins, now - DAYS)
    /\ spins_removed' = Len(spins) - Len(spins')
    /\ Pass
    /\ UNCHANGED <<now, blob, requests, pages, fetched, spins_in_response,
                   response, data, website, s3_puts, status>>

\* SpinHistory.load: where the fetch starts
fetch_start(d, t) == IF d # <<>> THEN most_recent_spin(d).start ELSE t - DAYS

\* min(spins, key=lambda spin: spin.start).start, on a non-empty list
earliest_time(ss) ==
    LET starts == {ss[i].start : i \in 1..Len(ss)}
    IN  CHOOSE m \in starts : \A x \in starts : m <= x

\* the mutant: the loop goes on until a page is empty
more_until_empty(n) == n > 0

\* while spins_in_response == 100
more_pages(n) == n = PAGE_CAP

\* one call of make_spin_request(start, end) answered by `response`
Request(start, end, answer) ==
    /\ requests' = Append(requests, [start |-> start, end |-> end,
                                     params |-> params(start, end)])
    /\ response' = answer
    /\ LET r == make_spin_request(answer)
       IN  IF r.ok
           THEN /\ pages' = Append(pages, r.spins)
                /\ fetched' = fetched \o r.spins
                /\ spins_in_response' = Len(r.spins)
                /\ UNCHANGED <<pc, exc, failed_at, log>>
           ELSE /\ Fail(r.exc)
                /\ UNCHANGED <<pages, fetched, spins_in_response, log>>
    /\ UNCHANGED <<now, blob, spins, spins_removed, data, website, s3_puts, status>>

\* fetch_spins: spins = self.make_spin_request(start, end)
FetchFirstPage ==
    /\ pc = "fetch_spins"
    /\ requests = <<>>
    /\ LET start == fetch_start(spins, now)
       IN  \E answer \in Responses(1, now) : Request(start, now, answer)

\* fetch_spins: one turn of the loop
FetchNextPage ==
    /\ pc = "fetch_spins"
    /\ requests # <<>>
    /\ more_pages(spins_in_response)
    /\ Len(requests) < MaxPages
    /\ LET earliest == earliest_time(fetched)
       IN  \E answer \in Responses(Len(requests) + 1, earliest) :
               Request(requests[1].start, earliest, answer)

\* fetch_spins: return spins
FetchReturn ==
    /\ pc = "fetch_spins"
    /\ requests # <<>>
    /\ ~more_pages(spins_in_response)
    /\ Pass
    /\ UNCHANGED <<now, blob, spins, spins_removed, requests, pages, fetched,
                   spins_in_response, response, data, website, s3_puts, status>>

\* fetch_spins_from_api: self.spins = {**self.spins, **{...}}; the list
\* fetch_spins returned is dropped with the call's frame
Merge ==
    /\ pc = "merge"
    /\ spins' = fetch_spins_from_api(spins, fetched)
    /\ fetched' = <<>>
    /\ pages' = <<>>
    /\ response' = NoResponse
    /\ Pass
    /\ UNCHANGED <<now, blob, spins_removed, requests, spins_in_response,
                   data, website, s3_puts, status>>

\* write_to_s3: the object is replaced by the serialized dataset
WriteToS3 ==
    /\ pc = "write_to_s3"
    /\ blob' = [kind |-> "ok", spins |-> spins]
    /\ s3_puts' = Append(s3_puts, "data")
    /\ Pass
    /\ UNCHANGED <<now, spins, spins_removed, requests, pages, fetched,
                   spins_in_response, response, data, website, status>>

\* write_to_s3: put_object raises
WriteToS3Fails ==
    /\ pc = "write_to_s3"
    /\ Fail("ClientError")
    /\ UNCHANGED <<now, blob, spins, spins_removed, requests, pages, fetched,
                   spins_in_response, response, data, website, s3_puts, log, status>>

\* update_s3_website: the template cannot be read
TemplateFails ==
    /\ pc = "compute_stats"
    /\ Fail("OSError")
    /\ UNCHANGED <<now, blob, spins, spins_removed, requests, pages, fetched,
                   spins_in_response, response, data, website, s3_puts, log, status>>

\* update_s3_website: data = {...}; most_recent_spin raises ValueError("No
\* spins exist") on an empty dict
ComputeStats ==
    /\ pc = "compute_stats"
    /\ IF spins = <<>>
       THEN Fail("ValueError: No spins exist") /\ UNCHANGED <<data, log>>
       ELSE /\ data' = [trending_artists |-> find_trending_artists(spins),
                        top_artists |-> find_top_artists(spins),
                        top_songs |-> find_top_songs(spins)]
            /\ Pass
    /\ UNCHANGED <<now, blob, spins, spins_removed, requests, pages, fetched,
                   spins_in_response, response, website, s3_puts, status>>

\* update_s3_website: template.render(data) and put_object; the page is a
\* function of the data and is modelled by it
Publish ==
    /\ pc = "publish"
    /\ website' = data
    /\ s3_puts' = Append(s3_puts, "website")
    /\ Pass
    /\ UNCHANGED <<now, blob, spins, spins_removed, requests, pages, fetched,
                   spins_in_response, response, data, status>>

\* update_s3_website: render or put_object raises
PublishFails ==
    /\ pc = "publish"
    /\ Fail("PublishError")
    /\ UNCHANGED <<now, blob, spins, spins_removed, requests, pages, fetched,
                   spins_in_response, response, data, website, s3_puts, log, status>>

\* return {"statusCode": 200}
Return ==
    /\ pc = "return"
    /\ status' = 200
    /\ pc' = "done"
    /\ log' = Append(log, pc)
    /\ UNCHANGED <<now, blob, spins, spins_removed, requests, pages, fetched,
                   spins_in_response, response, data, website, s3_puts, exc, failed_at>>

Next ==
    \/ LoadFromS3
    \/ PurgeOldSpins
    \/ FetchFirstPage
    \/ FetchNextPage
    \/ FetchReturn
    \/ Merge
    \/ WriteToS3
    \/ WriteToS3Fails
    \/ TemplateFails
    \/ ComputeStats
    \/ Publish
    \/ PublishFails
    \/ Return

Spec == Init /\ [][Next]_vars

(***************************************************************************)
(* The statistics on datasets drawn from a bounded family: the state after *)
(* write_to_s3 of an invocation that loaded the dataset, purged nothing    *)
(* and fetched an empty page.                                              *)
(***************************************************************************)
\* the two starts of the family: TrendLate, and the instant DAYS / 2 before it
TrendLate == BaseNow - 60
TrendEarly == TrendLate - DAYS \div 2

\* the k-th artist
ArtistName(k) == <<<<"a", "b", "c", "d", "e", "f", "g", "h", "i", "j">>[k]>>

\* the shapes of the datasets of n spins: the spins in dict order, each given
\* by the number of its artist and its start; the artists are numbered in the
\* order they first appear
RECURSIVE ShapesOf(_)
ShapesOf(n) ==
    IF n = 0 THEN {<<>>}
    ELSE LET shorter == ShapesOf(n - 1)
             artists(sh) == Cardinality({sh[i][1] : i \in 1..Len(sh)})
         IN  {Append(p[1], <<p[2], p[3]>>) :
                p \in {q \in shorter \X (1..n) \X {TrendEarly, TrendLate} :
                         q[2] <= artists(q[1]) + 1}}

\* one artist with five spins after the midpoint and two at or before it, and
\* a second artist
ExampleShape ==
    << <<1, TrendLate>>, <<1, TrendEarly>>, <<2, TrendLate - 1>>, <<1, TrendLate - 2>>,
       <<1, TrendLate - 3>>, <<1, TrendEarly - 4>>, <<1, TrendEarly + 1>>,
       <<1, TrendLate - 6>> >>

\* the family: the shapes of at most MaxSpins spins, and the example
ShapesAt(n) == IF n <= MaxSpins THEN ShapesOf(n) ELSE {ExampleShape}

\* the dataset of a shape
DatasetOf(sh) ==
    [i \in 1..Len(sh) |-> Spin(i, ArtistName(sh[i][1]), SongX, sh[i][2], sh[i][2] + 60)]

InitTrend ==
    /\ pc = "compute_stats"
    /\ now = BaseNow
    /\ \E n \in 0..(MaxSpins + 1) : \E sh \in ShapesAt(n) : spins = DatasetOf(sh)
    /\ blob = [kind |-> "ok", spins |-> spins]
    /\ spins_removed = 0
    /\ requests = <<[start |-> fetch_start(spins, now), end |-> now,
                     params |-> params(fetch_start(spins, now), now)]>>
    /\ pages = <<>>
    /\ fetched = <<>>
    /\ spins_in_response = 0
    /\ response = NoResponse
    /\ data = NoData
    /\ website = NoData
    /\ s3_puts = <<"data">>
    /\ log = <<"load_from_s3", "purge_old_spins", "fetch_spins", "merge", "write_to_s3">>
    /\ exc = "none"
    /\ failed_at = "none"
    /\ status = 0

NextTrend == ComputeStats

SpecTrend == InitTrend /\ [][NextTrend]_vars

(***************************************************************************)
(* The claims.                                                             *)
(***************************************************************************)
Min(S) == CHOOSE m \in S : \A x \in S : m <= x
Max(S) == CHOOSE m \in S : \A x \in S : x <= m

\* C1: merge is first-seen-wins: when fetch_spins_from_api merges the fetched
\* records, every id the dataset already held still maps to the record it held
\* before the merge, and a fetched record is added only when its id was absent.
C1_MergeFirstSeenWins ==
    [][(pc = "merge" /\ pc' # "merge") =>
          /\ \A i \in 1..Len(spins) : \E j \in 1..Len(spins') : spins'[j] = spins[i]
          /\ \A j \in 1..Len(spins') :
                 \/ spins'[j] \in Range(spins)
                 \/ spins'[j].id_ \notin Ids(spins) /\ spins'[j] \in Range(fetched)]_vars

\* C2: after purge_old_spins(boundary) no retained record has start <=
\* boundary, every removed record had start <= boundary, and every record with
\* start > boundary is retained unchanged under the same id; the count logged
\* is the count removed.
C2_PurgeRemovesExactlyOld ==
    [][pc = "purge_old_spins" =>
          LET boundary == now - DAYS
          IN  /\ \A j \in 1..Len(spins') : spins'[j].start > boundary
              /\ \A i \in 1..Len(spins) :
                     IF spins[i].start > boundary
                     THEN \E j \in 1..Len(spins') : spins'[j] = spins[i]
                     ELSE spins[i].id_ \notin Ids(spins')
              /\ \A j \in 1..Len(spins') : spins'[j] \in Range(spins)
              /\ IsDict(spins')
              /\ spins_removed' = Len(spins) - Len(spins')]_vars

\* C2 witness: a purge removed a spin and kept another
C2_Witness ==
    /\ pc = "fetch_spins"
    /\ requests = <<>>
    /\ spins_removed > 0
    /\ spins # <<>>

\* C3: fetch_spins issues exactly k requests, page k being the first page with
\* fewer than 100 records, and returns the concatenation of pages 1..k; every
\* follow-up request asks for the window from the original start up to the
\* earliest start among the records fetched so far.
C3_Pagination ==
    "merge" \notin Range(log) =>
        /\ \A i \in 1..(Len(pages) - 1) : Len(pages[i]) = 100
        /\ fetched = Concat(pages)
        /\ Len(requests) = Len(pages) + (IF failed_at = "fetch_spins" THEN 1 ELSE 0)
        /\ "fetch_spins" \in Range(log) =>
               /\ pages # <<>>
               /\ Len(pages[Len(pages)]) < 100
               /\ Len(requests) = Len(pages)
        /\ \A i \in 1..Len(requests) :
               /\ requests[i].start = requests[1].start
               /\ requests[i].end =
                      IF i = 1 THEN now
                      ELSE LET sofar == Concat(SubSeq(pages, 1, i - 1))
                           IN  Min({sofar[j].start : j \in 1..Len(sofar)})
               /\ requests[i].params.start = requests[i].start \div 60
               /\ requests[i].params.end = requests[i].end \div 60

\* C3 witness: pages of 100, 100 and PartialSize records, three requests
C3_Witness ==
    /\ pc = "merge"
    /\ Len(requests) = 3
    /\ Len(pages) = 3
    /\ Len(pages[1]) = 100 /\ Len(pages[2]) = 100 /\ Len(pages[3]) = PartialSize
    /\ Len(fetched) = 200 + PartialSize

\* C4: the most-recent-start query and the trending-artists statistic are
\* never evaluated on an empty dataset, so no empty-dataset error is raised.
C4_NoEmptyDatasetError ==
    exc # "ValueError: No spins exist"

\* C5: the steps run in the order load, purge, fetch, merge, save, compute
\* stats, publish; the dataset is written exactly once, after purge and merge
\* and before any statistic is computed or the page is written; when rendering
\* or publishing fails the merged dataset has been saved, and when an earlier
\* step fails neither the page is written nor statusCode 200 returned.
C5_HandlerOrder ==
    /\ IsPrefix(log, <<"load_from_s3", "purge_old_spins", "fetch_spins", "merge",
                       "write_to_s3", "compute_stats", "publish", "return">>)
    /\ CountOf(s3_puts, "data") <= 1
    /\ "data" \in Range(s3_puts) =>
           /\ {"purge_old_spins", "merge"} \subseteq Range(log)
           /\ blob = [kind |-> "ok", spins |-> spins]
    /\ ("compute_stats" \in Range(log) \/ "website" \in Range(s3_puts) \/ data # NoData) =>
           /\ s3_puts # <<>>
           /\ s3_puts[1] = "data"
    /\ failed_at \in {"compute_stats", "publish"} =>
           /\ s3_puts = <<"data">>
           /\ blob = [kind |-> "ok", spins |-> spins]
    /\ failed_at \in {"load_from_s3", "purge_old_spins", "fetch_spins", "merge",
                      "write_to_s3"} =>
           /\ s3_puts = <<>>
           /\ website = NoData
    /\ pc = "failed" => status # 200
    /\ status = 200 => s3_puts = <<"data", "website">>

\* C5 witness: an invocation that ran to the end
C5_Witness ==
    /\ pc = "done"
    /\ status = 200
    /\ s3_puts = <<"data", "website">>
    /\ Len(spins) > 1
    /\ website.top_artists # <<>>

\* C6: loading the dataset never raises: when the object is not found, or its
\* content is not valid JSON or does not match the dataset shape, load_from_s3
\* returns an empty dataset and the invocation continues.
C6_LoadNeverRaises ==
    /\ failed_at # "load_from_s3"
    /\ (pc = "purge_old_spins" /\ blob.kind # "ok") => spins = <<>>

\* an element of a page is well formed: an object with the five fields, the
\* timestamps parsable
WellFormed(item) ==
    /\ item.k = "object"
    /\ item.id.t = "str"
    /\ item.artist.t = "str"
    /\ item.song.t = "str"
    /\ item.start.t = "ts"
    /\ item.end.t = "ts"

\* C7: when an API page is a list with malformed elements, make_spin_request
\* skips exactly those and returns the records of the well-formed elements;
\* the fetch does not fail because of a bad record.
C7_MalformedSkipped ==
    response.kind = "list" =>
        /\ failed_at # "fetch_spins"
        /\ pages # <<>>
        /\ LET good == SelectSeq(response.items, WellFormed)
               page == pages[Len(pages)]
           IN  /\ Len(page) = Len(good)
               /\ \A i \in 1..Len(good) :
                      /\ page[i].id_ = good[i].id.v
                      /\ page[i].start = good[i].start.v
                      /\ page[i].end = good[i].end.v

\* a text as the claim wants it stored: no raw <script>, at most 100 characters
Sanitized(t) == Len(t) <= 100 /\ ~HasRawScript(t)

\* C8: every record created from an API response element has its artist and
\* song HTML-escaped and truncated to at most 100 characters: no record in the
\* dataset, in the saved blob or in the data passed to the template carries a
\* raw <script> or a text longer than 100 characters.
C8_TextSanitized ==
    /\ \A i \in 1..Len(spins) : Sanitized(spins[i].artist) /\ Sanitized(spins[i].song)
    /\ \A i \in 1..Len(blob.spins) :
           Sanitized(blob.spins[i].artist) /\ Sanitized(blob.spins[i].song)
    /\ \A e \in Range(data.trending_artists) \cup Range(data.top_artists) : Sanitized(e.key)
    /\ \A e \in Range(data.top_songs) : Sanitized(e.key[1]) /\ Sanitized(e.key[2])

\* C9: on a non-empty dataset find_trending_artists returns at most 5 (artist,
\* score) pairs ordered by score descending, the score being the number of the
\* artist's records that start strictly after (maximum start - 15 days) minus
\* the number that start at or before it; equal scores keep first-encountered
\* order; the dataset is not modified.
C9_Trending ==
    "compute_stats" \in Range(log) =>
        LET midpoint == Max({sp.start : sp \in Range(spins)}) - 15 * 24 * 60 * 60
            artists == {sp.artist : sp \in Range(spins)}
            after(a) == {i \in 1..Len(spins) :
                            spins[i].artist = a /\ spins[i].start > midpoint}
            before(a) == {i \in 1..Len(spins) :
                            spins[i].artist = a /\ spins[i].start <= midpoint}
            score(a) == Cardinality(after(a)) - Cardinality(before(a))
            first(a) == Min({i \in 1..Len(spins) : spins[i].artist = a})
            top == data.trending_artists
        IN  /\ spins # <<>>
            /\ Len(top) = IF Cardinality(artists) < 5 THEN Cardinality(artists) ELSE 5
            /\ \A k \in 1..Len(top) : top[k].key \in artists /\ top[k].n = score(top[k].key)
            /\ \A k \in 1..(Len(top) - 1) :
                   \/ top[k].n > top[k + 1].n
                   \/ top[k].n = top[k + 1].n /\ first(top[k].key) < first(top[k + 1].key)
            /\ \A a \in artists :
                   (\A k \in 1..Len(top) : top[k].key # a) =>
                       /\ score(a) <= top[Len(top)].n
                       /\ score(a) = top[Len(top)].n => first(top[Len(top)].key) < first(a)
            /\ blob = [kind |-> "ok", spins |-> spins]

\* C9 witness: an artist with 5 records after the midpoint and 2 at or before
\* it is ranked with score 3
C9_Witness ==
    /\ "compute_stats" \in Range(log)
    /\ LET midpoint == Max({sp.start : sp \in Range(spins)}) - 15 * 24 * 60 * 60
       IN  \E k \in 1..Len(data.trending_artists) :
               /\ data.trending_artists[k].n = 3
               /\ Cardinality({i \in 1..Len(spins) :
                      /\ spins[i].artist = data.trending_artists[k].key
                      /\ spins[i].start > midpoint}) = 5
               /\ Cardinality({i \in 1..Len(spins) :
                      /\ spins[i].artist = data.trending_artists[k].key
                      /\ spins[i].start <= midpoint}) = 2
               /\ \E i \in 1..Len(spins) :
                      /\ spins[i].artist = data.trending_artists[k].key
                      /\ spins[i].start = midpoint

\* C10: whenever the top-level value of an API response body is not a list,
\* make_spin_request fails hard and the invocation aborts; it never returns a
\* record sequence, empty or not, for such a response.
C10_NonListFailsHard ==
    response.kind \in {"object", "string", "number", "null"} =>
        /\ pc = "failed"
        /\ failed_at = "fetch_spins"

====
